---- MODULE Spec2Model ----
(***************************************************************************)
(* The data-lineage / quality subsystem of the geopolitical data platform  *)
(* backend: the relational tables (models/database.py) and the request     *)
(* handlers of routes/lineage.py, with the handlers of routes/sources.py   *)
(* and routes/data.py that create the rows lineage records refer to.       *)
(*                                                                         *)
(* Values that cross the HTTP boundary or sit in a column are Python       *)
(* values, modelled as tagged records.  A JSON text column holds a string  *)
(* whose characters are modelled as a sequence of tokens; json.dumps and   *)
(* json.loads are a printer and a parser over those tokens.                *)
(***************************************************************************)
EXTENDS Integers, Sequences, FiniteSets, TLC

VARIABLES sources, entries, lineage, countries, tags, collecting, results, now, last, txn

vars == <<sources, entries, lineage, countries, tags, collecting, results, now, last, txn>>

(***************************************************************************)
(* Bounds of the model.                                                    *)
(***************************************************************************)
MaxLineage == 2     \* lineage rows ever inserted
MaxEntries == 2     \* data-entry rows ever inserted
MaxTime == 3        \* transactions the service commits one after another
MaxTags == 2         \* tag rows ever inserted
MaxStat == 12       \* data-entry totals the coverage percentage is checked for

(***************************************************************************)
(* Python values.                                                          *)
(***************************************************************************)
PyNone == [t |-> "none"]
PyNum(n) == [t |-> "num", n |-> n]              \* n counts hundredths: PyNum(50) is 0.5
PyStr(s) == [t |-> "str", s |-> s]
PyList(items) == [t |-> "list", items |-> items]
PyDict(m) == [t |-> "dict", m |-> m]
PyText(toks) == [t |-> "text", toks |-> toks]   \* a str holding JSON text
PyDateTime(at) == [t |-> "datetime", at |-> at]

EmptyMap == [k \in {} |-> PyNone]

\* bool(v), as `if v:` evaluates it
Truthy(v) ==
    CASE v.t = "none" -> FALSE
      [] v.t = "num" -> v.n # 0
      [] v.t = "str" -> v.s # ""
      [] v.t = "list" -> Len(v.items) > 0
      [] v.t = "dict" -> DOMAIN v.m # {}
      [] v.t = "text" -> Len(v.toks) > 0
      [] OTHER -> TRUE

\* k in d, for a dict d
HasKey(d, k) == k \in DOMAIN d.m

\* d.get(k, default)
DictGet(d, k, default) == IF HasKey(d, k) THEN d.m[k] ELSE default

\* The mapping after d.update(other), both dicts.
UpdateMap(m, other) ==
    [k \in DOMAIN m \cup DOMAIN other |-> IF k \in DOMAIN other THEN other[k] ELSE m[k]]

(***************************************************************************)
(* json.dumps and json.loads.  A text is a sequence of tokens: the         *)
(* punctuation, the literal null, a number literal, or the characters of   *)
(* a string between two quote tokens.  Members of an object are printed    *)
(* in the order of KeyOrder (Python prints them in insertion order; no     *)
(* handler reads the order).                                               *)
(***************************************************************************)
\* The literals of 0.0, 0.01, ... 1.0 as repr prints them; Decimals[n + 1] is
\* the literal of n hundredths.
Decimals ==
    <<"0.0", "0.01", "0.02", "0.03", "0.04", "0.05", "0.06", "0.07", "0.08", "0.09",
      "0.1", "0.11", "0.12", "0.13", "0.14", "0.15", "0.16", "0.17", "0.18", "0.19",
      "0.2", "0.21", "0.22", "0.23", "0.24", "0.25", "0.26", "0.27", "0.28", "0.29",
      "0.3", "0.31", "0.32", "0.33", "0.34", "0.35", "0.36", "0.37", "0.38", "0.39",
      "0.4", "0.41", "0.42", "0.43", "0.44", "0.45", "0.46", "0.47", "0.48", "0.49",
      "0.5", "0.51", "0.52", "0.53", "0.54", "0.55", "0.56", "0.57", "0.58", "0.59",
      "0.6", "0.61", "0.62", "0.63", "0.64", "0.65", "0.66", "0.67", "0.68", "0.69",
      "0.7", "0.71", "0.72", "0.73", "0.74", "0.75", "0.76", "0.77", "0.78", "0.79",
      "0.8", "0.81", "0.82", "0.83", "0.84", "0.85", "0.86", "0.87", "0.88", "0.89",
      "0.9", "0.91", "0.92", "0.93", "0.94", "0.95", "0.96", "0.97", "0.98", "0.99",
      "1.0">>

KeyOrder ==
    <<"completeness", "accuracy", "timeliness", "consistency", "reviewer",
      "source_id", "collection_timestamp", "collection_method", "raw_data_hash",
      "transformation_applied", "Government">>

Quote == "\""

RECURSIVE Dumps(_)
RECURSIVE DumpItems(_)
RECURSIVE DumpMembers(_, _)

DumpItems(items) ==
    IF items = <<>> THEN <<>>
    ELSE Dumps(Head(items))
         \o (IF Len(items) > 1 THEN <<",">> ELSE <<>>)
         \o DumpItems(Tail(items))

\* the members of m under the given keys, in their order
DumpMembers(m, keys) ==
    IF keys = <<>> THEN <<>>
    ELSE <<Quote, Head(keys), Quote, ":">> \o Dumps(m[Head(keys)])
         \o (IF Len(keys) > 1 THEN <<",">> ELSE <<>>)
         \o DumpMembers(m, Tail(keys))

Dumps(v) ==
    CASE v.t = "none" -> <<"null">>
      [] v.t = "num" -> <<Decimals[v.n + 1]>>
      [] v.t = "str" -> <<Quote, v.s, Quote>>
      [] v.t = "list" -> <<"[">> \o DumpItems(v.items) \o <<"]">>
      [] v.t = "dict" ->
            <<"{">> \o DumpMembers(v.m, SelectSeq(KeyOrder, LAMBDA k : k \in DOMAIN v.m))
                   \o <<"}">>

RECURSIVE ParseValue(_)
RECURSIVE ParseItems(_, _)
RECURSIVE ParseMembers(_, _)

\* The value at the head of toks and the tokens after it.
ParseValue(toks) ==
    LET h == Head(toks) IN
    CASE h = "null" -> [v |-> PyNone, rest |-> Tail(toks)]
      [] h = Quote -> [v |-> PyStr(toks[2]), rest |-> SubSeq(toks, 4, Len(toks))]
      [] h = "[" -> ParseItems(Tail(toks), <<>>)
      [] h = "{" -> ParseMembers(Tail(toks), EmptyMap)
      [] OTHER -> [v |-> PyNum((CHOOSE i \in 1..Len(Decimals) : Decimals[i] = h) - 1),
                   rest |-> Tail(toks)]

ParseItems(toks, acc) ==
    IF Head(toks) = "]" THEN [v |-> PyList(acc), rest |-> Tail(toks)]
    ELSE IF Head(toks) = "," THEN ParseItems(Tail(toks), acc)
    ELSE LET pv == ParseValue(toks) IN ParseItems(pv.rest, Append(acc, pv.v))

ParseMembers(toks, m) ==
    IF Head(toks) = "}" THEN [v |-> PyDict(m), rest |-> Tail(toks)]
    ELSE IF Head(toks) = "," THEN ParseMembers(Tail(toks), m)
    ELSE LET pv == ParseValue(SubSeq(toks, 5, Len(toks)))
         IN ParseMembers(pv.rest, UpdateMap(m, toks[2] :> pv.v))

\* json.dumps(v): the text, as a Python str
JsonDumps(v) == PyText(Dumps(v))

\* json.loads(text)
JsonLoads(text) == ParseValue(text.toks).v

(***************************************************************************)
(* The tables (models/database.py).  A table is a function from primary    *)
(* key to row; a row is a record of column values; SQL NULL is None.       *)
(* uuid4 keys are drawn from a pool, the next unused one each time.        *)
(***************************************************************************)
SourcePool == <<"s1", "s2">>
EntryPool == <<"e1", "e2", "e3", "e4">>
LineagePool == <<"l1", "l2", "l3", "l4">>

\* identifiers no row ever has
NoSource == "s0"
NoEntry == "e0"
NoLineage == "l0"

EntryIds == {EntryPool[i] : i \in 1..MaxEntries}
LineageIds == {LineagePool[i] : i \in 1..MaxLineage}

EmptyTable == [k \in {} |-> PyNone]

\* Model.query.get(key): the row, or None
QueryGet(table, key) ==
    IF key.t = "str" /\ key.s \in DOMAIN table THEN table[key.s] ELSE PyNone

\* session.add(row); commit(): INSERT
Insert(table, key, row) == table @@ (key :> row)

\* Flush that writes every column of the session's object.
FlushEveryColumn(table, key, loaded, obj) == [table EXCEPT ![key] = obj]

\* The UPDATE a flush emits for a loaded row whose attributes were assigned:
\* it sets the columns whose value differs from the loaded one.
Flush(table, key, loaded, obj) ==
    [table EXCEPT ![key] =
        [c \in DOMAIN obj |-> IF obj[c] # loaded[c] THEN obj[c] ELSE table[key][c]]]

\* Source(...) as INSERTed: last_updated takes its default
Source(id, name, type, at) ==
    [id |-> PyStr(id), name |-> name, type |-> type, last_updated |-> PyDateTime(at)]

DataEntry(id, source_id, title, content, content_type) ==
    [id |-> PyStr(id), source_id |-> source_id, title |-> title, content |-> content,
     content_type |-> content_type, processed |-> FALSE]

\* DataLineage(...) with last_verified set at the INSERT.
DataLineageVerifiedAtInsert(id, data_entry_id, source_chain, quality_metrics, validation_status, at) ==
    [id |-> PyStr(id), data_entry_id |-> data_entry_id, source_chain |-> source_chain,
     quality_metrics |-> quality_metrics, validation_status |-> validation_status,
     last_verified |-> PyDateTime(at), created_at |-> PyDateTime(at)]

\* DataLineage(...) as INSERTed: created_at takes its default, last_verified none
DataLineage(id, data_entry_id, source_chain, quality_metrics, validation_status, at) ==
    [id |-> PyStr(id), data_entry_id |-> data_entry_id, source_chain |-> source_chain,
     quality_metrics |-> quality_metrics, validation_status |-> validation_status,
     last_verified |-> PyNone, created_at |-> PyDateTime(at)]

\* DataLineage.to_dict
LineageToDict(row) ==
    [id |-> row.id,
     data_entry_id |-> row.data_entry_id,
     source_chain |-> IF Truthy(row.source_chain) THEN JsonLoads(row.source_chain)
                      ELSE PyList(<<>>),
     quality_metrics |-> IF Truthy(row.quality_metrics) THEN JsonLoads(row.quality_metrics)
                         ELSE PyDict(EmptyMap),
     validation_status |-> row.validation_status,
     last_verified |-> row.last_verified,
     created_at |-> row.created_at]

\* DataEntry.to_dict
EntryToDict(row) == row

\* Source.to_dict
SourceToDict(row) == row

(***************************************************************************)
(* Responses.  A handler answers with a status code and a JSON body.  The  *)
(* history variable last names the request that committed last; a request  *)
(* that fails or only reads leaves every variable as it was.               *)
(***************************************************************************)
Response(code, body) == [code |-> code, body |-> body]

Committed(op, arg, data) == [op |-> op, arg |-> arg, data |-> data]

\* except Exception as e: ... return jsonify({'error': str(e)}), 500
\* (every exception raised inside the try block, werkzeug's NotFound included)
ExceptException(exc) == Response(500, [error |-> exc])

\* `Missing required field: <field>`, 400
MissingField(field) == Response(400, [error |-> "Missing required field: " \o field])

\* The first of the required fields that data lacks, or "" when it has them all.
FirstMissing(data, required) ==
    LET miss == SelectSeq(required, LAMBDA f : ~HasKey(data, f))
    IN IF miss = <<>> THEN "" ELSE Head(miss)

\* A request body with the optional member k: absent, or one of the values.
Opt(k, values) == {EmptyMap} \cup {k :> v : v \in values}

(***************************************************************************)
(* The initial state: the empty tables db.create_all() leaves.             *)
(***************************************************************************)
\* results = {} of collect_region_data
NoResults == [country_code \in {} |-> FALSE]

Workers == {1, 2}

Idle == [pc |-> "idle"]

Init ==
    /\ sources = EmptyTable
    /\ entries = EmptyTable
    /\ lineage = EmptyTable
    /\ countries = EmptyTable
    /\ tags = <<>>
    /\ collecting = FALSE
    /\ results = NoResults
    /\ now = 0
    /\ last = Committed("none", "", PyNone)
    /\ txn = [w \in Workers |-> Idle]

\* datetime.utcnow(): the clock moves on between one committed transaction and
\* the next, so that the reading is also the number of transactions committed.
Later(at) == at + 1

\* The clock is capped: the service takes requests until MaxTime transactions
\* have committed.
Serving == now < MaxTime

(***************************************************************************)
(* routes/sources.py create_source and routes/data.py create_data_entry.   *)
(***************************************************************************)
SourceBodies ==
    {PyDict(a @@ b @@ c) :
        a \in Opt("id", {PyStr("s1")}),
        b \in Opt("name", {PyStr("CIA World Factbook")}),
        c \in {"type" :> PyStr("government")}}

\* CreateSourceResponse without the lookup of lines 45-48.
CreateSourceResponseNoLookup(data) ==
    LET missing == FirstMissing(data, <<"id", "name", "type">>) IN
    IF missing # "" THEN MissingField(missing)
    ELSE Response(201, SourceToDict(Source(data.m["id"].s, data.m["name"], data.m["type"], now)))

CreateSourceResponse(data) ==
    LET missing == FirstMissing(data, <<"id", "name", "type">>) IN
    IF missing # "" THEN MissingField(missing)
    ELSE IF QueryGet(sources, data.m["id"]) # PyNone
         THEN Response(409, [error |-> "Source with this ID already exists"])
         ELSE Response(201, SourceToDict(Source(data.m["id"].s, data.m["name"], data.m["type"], now)))

\* The whole handler: the answer and the sources table after it.
CreateSource(data) ==
    LET resp == CreateSourceResponse(data) IN
    [resp |-> resp,
     table |-> IF resp.code = 201
               THEN Insert(sources, data.m["id"].s, resp.body)
               ELSE sources]

create_source ==
    /\ Serving
    /\ \E data \in SourceBodies :
        LET out == CreateSource(data) IN
        /\ out.resp.code = 201 => now < MaxTime
        /\ sources' = out.table
        /\ now' = IF out.resp.code = 201 THEN Later(now) ELSE now
        /\ last' = IF out.resp.code = 201 THEN Committed("create_source", "", data) ELSE last
        /\ UNCHANGED <<entries, lineage, countries, collecting, results, tags, txn>>

EntryBodies ==
    {PyDict(a @@ b @@ c) :
        a \in Opt("source_id", {PyStr("s1"), PyStr(NoSource)}),
        b \in {"title" :> PyStr("Profile")},
        c \in Opt("content", {PyStr("raw")})}

NextEntryId == EntryPool[Cardinality(DOMAIN entries) + 1]

CreateDataEntryResponse(data) ==
    LET missing == FirstMissing(data, <<"source_id", "title", "content">>) IN
    IF missing # "" THEN MissingField(missing)
    ELSE IF QueryGet(sources, data.m["source_id"]) = PyNone
         THEN Response(404, [error |-> "Source not found"])
         ELSE Response(201, EntryToDict(DataEntry(NextEntryId, data.m["source_id"],
                                data.m["title"], data.m["content"],
                                DictGet(data, "content_type", PyStr("article")))))

create_data_entry ==
    /\ Serving
    /\ \E data \in EntryBodies :
        LET resp == CreateDataEntryResponse(data) IN
        /\ resp.code = 201 => now < MaxTime /\ Cardinality(DOMAIN entries) < MaxEntries
        /\ entries' = IF resp.code = 201
                      THEN Insert(entries, NextEntryId, resp.body)
                      ELSE entries
        /\ now' = IF resp.code = 201 THEN Later(now) ELSE now
        /\ last' = IF resp.code = 201 THEN Committed("create_data_entry", "", data) ELSE last
        /\ UNCHANGED <<sources, lineage, countries, collecting, results, tags, txn>>

(***************************************************************************)
(* routes/lineage.py create_lineage_record.                                *)
(***************************************************************************)
\* quality_metrics a client may send when creating: a mapping, null
CreateMetrics ==
    {PyNone,
     PyDict(("accuracy" :> PyNum(50)) @@ ("reviewer" :> PyNum(50)))}

\* validation_status a client may send when creating
CreateStatuses == {PyStr("archived")}

CreateLineageBodies ==
    {PyDict(a @@ b @@ c @@ d) :
        a \in {"data_entry_id" :> PyStr(e) : e \in EntryIds \cup {NoEntry}},
        b \in {"source_chain" :> PyList(<<>>)},
        c \in Opt("quality_metrics", CreateMetrics),
        d \in Opt("validation_status", CreateStatuses)}
    \cup {PyDict(("data_entry_id" :> PyStr(EntryPool[1]))
                 @@ ("source_chain" :> PyList(<<PyStr("s1")>>))),
          PyDict("source_chain" :> PyList(<<>>)),
          PyDict("data_entry_id" :> PyStr(EntryPool[1])),
          PyDict("data_entry_id" :> PyStr(NoEntry)),
          PyDict(EmptyMap)}

\* what request.get_json() may return: a JSON object of the above, or the None
\* of a body that is the JSON text null
CreateLineageRequests == CreateLineageBodies \cup {PyNone}

NextLineageId == LineagePool[Cardinality(DOMAIN lineage) + 1]

\* LineageRow that takes neither default.
LineageRowNoDefaults(id, data, at) ==
    DataLineage(id,
                data.m["data_entry_id"],
                JsonDumps(data.m["source_chain"]),
                JsonDumps(DictGet(data, "quality_metrics", PyNone)),
                DictGet(data, "validation_status", PyStr("validated")),
                at)

\* lines 56-62: the row the handler builds from a body that passed the checks
LineageRow(id, data, at) ==
    DataLineage(id,
                data.m["data_entry_id"],
                JsonDumps(data.m["source_chain"]),
                JsonDumps(DictGet(data, "quality_metrics", PyDict(EmptyMap))),
                DictGet(data, "validation_status", PyStr("pending")),
                at)

NewLineage(data, at) == LineageRow(NextLineageId, data, at)

\* CreateLineageResponse without the lookup of lines 51-53.
CreateLineageResponseNoLookup(data) ==
    IF data.t = "none" THEN ExceptException("TypeError") ELSE
    LET missing == FirstMissing(data, <<"data_entry_id", "source_chain">>) IN
    IF missing # "" THEN MissingField(missing)
    ELSE Response(201, LineageToDict(NewLineage(data, now)))

\* The answer: 400 for a missing field, 404 for an unknown entry, else 201;
\* `field not in data` of line 47 raises TypeError when data is None, which the
\* except branch answers with 500.
CreateLineageResponse(data) ==
    IF data.t = "none" THEN ExceptException("TypeError") ELSE
    LET missing == FirstMissing(data, <<"data_entry_id", "source_chain">>) IN
    IF missing # "" THEN MissingField(missing)
    ELSE IF QueryGet(entries, data.m["data_entry_id"]) = PyNone
         THEN Response(404, [error |-> "Data entry not found"])
         ELSE Response(201, LineageToDict(NewLineage(data, now)))

\* The whole handler: the answer and the lineage table after it.
CreateLineageRecord(data) ==
    LET resp == CreateLineageResponse(data) IN
    [resp |-> resp,
     table |-> IF resp.code = 201
               THEN Insert(lineage, NextLineageId, NewLineage(data, now))
               ELSE lineage]

create_lineage_record ==
    /\ Serving
    /\ \E data \in CreateLineageRequests :
        LET out == CreateLineageRecord(data) IN
        /\ out.resp.code = 201 => now < MaxTime /\ Cardinality(DOMAIN lineage) < MaxLineage
        /\ lineage' = out.table
        /\ now' = IF out.resp.code = 201 THEN Later(now) ELSE now
        /\ last' = IF out.resp.code = 201
                   THEN Committed("create_lineage_record", NextLineageId, data)
                   ELSE last
        /\ UNCHANGED <<sources, entries, countries, collecting, results, tags, txn>>

(***************************************************************************)
(* routes/lineage.py validate_lineage.                                     *)
(***************************************************************************)
\* quality_metrics a client may send when validating: partial mappings, the
\* empty mapping, and a value that is no mapping
ValidateMetrics ==
    {PyDict(EmptyMap),
     PyDict("completeness" :> PyNum(50)),
     PyDict("accuracy" :> PyNum(70)),
     PyDict("reviewer" :> PyNum(70)),
     PyStr("high")}

\* validation_status a client may send when validating
ValidateStatuses == {PyStr("failed"), PyStr("archived")}

ValidateBodies ==
    {PyDict(a @@ b) :
        a \in Opt("quality_metrics", ValidateMetrics),
        b \in Opt("validation_status", ValidateStatuses)}

\* MergeMetrics that keeps the keys of the request only.
ReplaceMetrics(text, quality_metrics) ==
    LET existing_metrics == IF Truthy(text) THEN JsonLoads(text) ELSE PyDict(EmptyMap) IN
    IF existing_metrics.t # "dict" THEN [raised |-> "AttributeError"]
    ELSE IF quality_metrics.t # "dict" THEN [raised |-> "ValueError"]
    ELSE [raised |-> "", v |-> quality_metrics]

\* lines 97-99: existing_metrics after the update, or the exception raised
MergeMetrics(text, quality_metrics) ==
    LET existing_metrics == IF Truthy(text) THEN JsonLoads(text) ELSE PyDict(EmptyMap) IN
    IF existing_metrics.t # "dict" THEN [raised |-> "AttributeError"]
    ELSE IF quality_metrics.t # "dict" THEN [raised |-> "ValueError"]
    ELSE [raised |-> "", v |-> PyDict(UpdateMap(existing_metrics.m, quality_metrics.m))]

\* validation_status = data.get('validation_status', 'validated')
RequestedStatus(data) == DictGet(data, "validation_status", PyStr("validated"))

\* Assigned with last_verified set only when metrics came with the request.
AssignedWhenMetrics(row, data, at) ==
    IF Truthy(DictGet(data, "quality_metrics", PyDict(EmptyMap)))
    THEN [row EXCEPT !.validation_status = RequestedStatus(data),
                     !.last_verified = PyDateTime(at)]
    ELSE [row EXCEPT !.validation_status = RequestedStatus(data)]

\* lines 93-94: the loaded row with both attributes assigned
Assigned(row, data, at) ==
    [row EXCEPT !.validation_status = RequestedStatus(data),
                !.last_verified = PyDateTime(at)]

\* lines 90-99: the session's object when the try block ends, and the exception
\* that ended it ("" when none)
ValidateSession(row, data, at) ==
    LET quality_metrics == DictGet(data, "quality_metrics", PyDict(EmptyMap))
        obj == Assigned(row, data, at)
    IN IF ~Truthy(quality_metrics) THEN [raised |-> "", obj |-> obj]
       ELSE LET merged == MergeMetrics(row.quality_metrics, quality_metrics) IN
            IF merged.raised # "" THEN [raised |-> merged.raised, obj |-> obj]
            ELSE [raised |-> "",
                  obj |-> [obj EXCEPT !.quality_metrics = JsonDumps(merged.v)]]

\* db.session.commit() of line 101
Commit(table, key, loaded, obj) == Flush(table, key, loaded, obj)

\* Rollback that flushes what the session holds.
RollbackFlushes(table, key, loaded, obj) == Flush(table, key, loaded, obj)

\* db.session.rollback() of line 105: the assignments are discarded
Rollback(table, key, loaded, obj) == table

\* DataLineage.query.get_or_404(lineage_id): raises NotFound for an unknown key
GetOr404(table, key) ==
    IF key \in DOMAIN table THEN [raised |-> "", row |-> table[key]]
    ELSE [raised |-> "NotFound"]

\* The whole handler on the table as it stands: the answer and the table after.
ValidateLineage(table, lineage_id, data, at) ==
    LET got == GetOr404(table, lineage_id) IN
    IF got.raised # ""
    THEN [resp |-> ExceptException(got.raised), table |-> table]
    ELSE LET s == ValidateSession(got.row, data, at) IN
         IF s.raised # ""
         THEN [resp |-> ExceptException(s.raised),
               table |-> Rollback(table, lineage_id, got.row, s.obj)]
         ELSE LET after == Commit(table, lineage_id, got.row, s.obj) IN
              [resp |-> Response(200, LineageToDict(after[lineage_id])), table |-> after]

validate_lineage ==
    /\ Serving
    /\ \E lineage_id \in LineageIds \cup {NoLineage}, data \in ValidateBodies :
        LET out == ValidateLineage(lineage, lineage_id, data, now) IN
        /\ out.resp.code = 200 => now < MaxTime
        /\ lineage' = out.table
        /\ now' = IF out.resp.code = 200 THEN Later(now) ELSE now
        /\ last' = IF out.resp.code = 200
                   THEN Committed("validate_lineage", lineage_id, data)
                   ELSE last
        /\ UNCHANGED <<sources, entries, countries, collecting, results, tags, txn>>

(***************************************************************************)
(* routes/lineage.py trace_data_lineage.                                   *)
(***************************************************************************)
\* The rows of a table in key order, as a list of dicts.
RECURSIVE RowsInOrder(_, _)
RowsInOrder(table, pool) ==
    IF pool = <<>> THEN <<>>
    ELSE (IF Head(pool) \in DOMAIN table THEN <<table[Head(pool)]>> ELSE <<>>)
         \o RowsInOrder(table, Tail(pool))

\* A read that stamps last_verified on every lineage row and commits.
ReadThatVerifies(resp) ==
    [resp |-> resp, sources |-> sources, entries |-> entries,
     lineage |-> [id \in DOMAIN lineage |->
                     [lineage[id] EXCEPT !.last_verified = PyDateTime(now)]]]

\* A handler that queries, assigns no attribute of a row it loaded and never
\* calls db.session.add, delete or commit: its answer, and the three tables
\* when the request's session is discarded.
ReadOnly(resp) ==
    [resp |-> resp, sources |-> sources, entries |-> entries, lineage |-> lineage]

\* The trace without the filter of lines 116-118.
TraceResponseAllRecords(data_entry_id) ==
    LET got == GetOr404(entries, data_entry_id) IN
    IF got.raised # "" THEN ExceptException(got.raised)
    ELSE LET lineage_records == RowsInOrder(lineage, LineagePool) IN
         Response(200,
            [data_entry |-> EntryToDict(got.row),
             lineage_records |-> [i \in 1..Len(lineage_records) |->
                                     LineageToDict(lineage_records[i])],
             source_info |-> PyNone,
             total_lineage_records |-> Len(lineage_records)])

TraceResponse(data_entry_id) ==
    LET got == GetOr404(entries, data_entry_id) IN
    IF got.raised # "" THEN ExceptException(got.raised)
    ELSE LET entry == got.row
             lineage_records ==
                 SelectSeq(RowsInOrder(lineage, LineagePool),
                           LAMBDA r : r.data_entry_id = PyStr(data_entry_id))
             source == QueryGet(sources, entry.source_id)
         IN Response(200,
                [data_entry |-> EntryToDict(entry),
                 lineage_records |-> [i \in 1..Len(lineage_records) |->
                                         LineageToDict(lineage_records[i])],
                 source_info |-> IF source # PyNone THEN SourceToDict(source) ELSE PyNone,
                 total_lineage_records |-> Len(lineage_records)])

\* The whole handler.
TraceDataLineage(data_entry_id) == ReadOnly(TraceResponse(data_entry_id))

trace_data_lineage ==
    /\ Serving
    /\ \E data_entry_id \in EntryIds \cup {NoEntry} :
        LET out == TraceDataLineage(data_entry_id) IN
        /\ out.resp.code \in {200, 500}
        /\ sources' = out.sources
        /\ entries' = out.entries
        /\ lineage' = out.lineage
        /\ UNCHANGED <<countries, collecting, results, now, last, tags, txn>>

(***************************************************************************)
(* routes/lineage.py get_quality_report.                                   *)
(***************************************************************************)
MetricNames == <<"completeness", "accuracy", "timeliness", "consistency">>

\* lines 138-140: the rows whose quality_metrics column is not NULL
ScannedRecords ==
    SelectSeq(RowsInOrder(lineage, LineagePool), LAMBDA r : r.quality_metrics # PyNone)

\* Contribution that counts every record whose document is a mapping.
ContributionOfEveryRecord(record, metric) ==
    LET metrics == JsonLoads(record.quality_metrics) IN
    IF metrics.t # "dict" THEN [raised |-> "", sum |-> 0, count |-> 0]
    ELSE IF metric \in DOMAIN metrics.m /\ metrics.m[metric].t = "num"
         THEN [raised |-> "", sum |-> metrics.m[metric].n, count |-> 1]
         ELSE [raised |-> "", sum |-> 0, count |-> 1]

\* lines 174-179 for one record and one metric: what the record adds to the sum
\* and to the count, or the exception the lookup raises
Contribution(record, metric) ==
    IF ~Truthy(record.quality_metrics) THEN [raised |-> "", sum |-> 0, count |-> 0]
    ELSE LET metrics == JsonLoads(record.quality_metrics) IN
         CASE metrics.t \in {"none", "num"} -> [raised |-> "TypeError"]
           [] metrics.t = "dict" ->
                IF metric \in DOMAIN metrics.m /\ metrics.m[metric] # PyNone
                THEN IF metrics.m[metric].t = "num"
                     THEN [raised |-> "", sum |-> metrics.m[metric].n, count |-> 1]
                     ELSE [raised |-> "TypeError"]
                ELSE [raised |-> "", sum |-> 0, count |-> 0]
           [] OTHER -> [raised |-> "", sum |-> 0, count |-> 0]

RECURSIVE Accumulate(_, _)
\* lines 169-179 over the records: sums and counts of one metric
Accumulate(records, metric) ==
    IF records = <<>> THEN [raised |-> "", sum |-> 0, count |-> 0]
    ELSE LET c == Contribution(Head(records), metric)
             rest == Accumulate(Tail(records), metric)
         IN IF c.raised # "" THEN c
            ELSE IF rest.raised # "" THEN rest
            ELSE [raised |-> "", sum |-> c.sum + rest.sum, count |-> c.count + rest.count]

\* The tally over the three keys it starts with only.
ValidationCountsKnownOnly(records) ==
    [k \in {PyStr("validated"), PyStr("pending"), PyStr("failed")} |->
        Cardinality({i \in 1..Len(records) : records[i].validation_status = k})]

\* lines 163-171: the tally, keyed by status, with the three keys it starts with
ValidationCounts(records) ==
    LET seen == {records[i].validation_status : i \in 1..Len(records)}
        keys == {PyStr("validated"), PyStr("pending"), PyStr("failed")} \cup seen
    IN [k \in keys |-> Cardinality({i \in 1..Len(records) : records[i].validation_status = k})]

\* Average that is 0 when nothing was counted.
AverageOrZero(acc) ==
    IF acc.count > 0 THEN [t |-> "quotient", num |-> acc.sum, den |-> acc.count] ELSE PyNum(0)

\* lines 182-187: sum / count (a quotient of hundredths), or None
Average(acc) ==
    IF acc.count > 0 THEN [t |-> "quotient", num |-> acc.sum, den |-> acc.count] ELSE PyNone

\* f"{count}/{total_records}"
Coverage(count, total_records) == ToString(count) \o "/" \o ToString(total_records)

\* lines 149-198: the report over the scanned records
AggregateReport(lineage_records) ==
    LET total_records == Len(lineage_records)
        names == {MetricNames[i] : i \in 1..Len(MetricNames)}
        acc == [m \in names |-> Accumulate(lineage_records, m)]
        raising == {m \in names : acc[m].raised # ""}
    IN IF raising # {}
       THEN ExceptException(acc[CHOOSE m \in raising : TRUE].raised)
       ELSE Response(200,
               [total_records |-> total_records,
                validation_status_distribution |-> ValidationCounts(lineage_records),
                average_quality_metrics |-> [m \in names |-> Average(acc[m])],
                quality_metric_coverage |->
                    [m \in names |-> Coverage(acc[m].count, total_records)]])

\* The report without the early return of lines 142-146.
QualityReportNoEarlyReturn == AggregateReport(ScannedRecords)

QualityReportResponse ==
    LET lineage_records == ScannedRecords IN
    IF lineage_records = <<>>
    THEN Response(200, [message |-> "No quality metrics available", total_records |-> 0])
    ELSE AggregateReport(lineage_records)

\* The whole handler.
GetQualityReport == ReadOnly(QualityReportResponse)

get_quality_report ==
    /\ Serving
    /\ GetQualityReport.resp.code \in {200, 500}
    /\ sources' = GetQualityReport.sources
    /\ entries' = GetQualityReport.entries
    /\ lineage' = GetQualityReport.lineage
    /\ UNCHANGED <<countries, collecting, results, now, last, tags, txn>>

(***************************************************************************)
(* routes/lineage.py get_lineage_stats.                                    *)
(***************************************************************************)
\* The count without the filter on validation_status.
CountAnyStatus(status) == Cardinality(DOMAIN lineage)

\* Query.count() of the rows with the given validation_status
CountStatus(status) ==
    Cardinality({id \in DOMAIN lineage : lineage[id].validation_status = PyStr(status)})

\* The count without distinct().
LineageRowCount == Cardinality(DOMAIN lineage)

\* db.session.query(DataLineage.data_entry_id).distinct().count()
DistinctEntryIds == Cardinality({lineage[id].data_entry_id : id \in DOMAIN lineage})

\* round(num / den, 0), ties to the even neighbour
RoundHalfEven(num, den) ==
    LET q == num \div den
        r == num % den
    IN IF 2 * r < den THEN q
       ELSE IF 2 * r > den THEN q + 1
       ELSE IF q % 2 = 0 THEN q ELSE q + 1

\* round(entries_with_lineage / total_entries * 100, 2) if total_entries > 0
\* else 0, in hundredths of a percent
CoveragePercentage(entries_with_lineage, total_entries) ==
    IF total_entries > 0
    THEN RoundHalfEven(entries_with_lineage * 10000, total_entries)
    ELSE 0

LineageStatsResponse ==
    LET total_lineage == Cardinality(DOMAIN lineage)
        total_entries == Cardinality(DOMAIN entries)
        entries_with_lineage == DistinctEntryIds
    IN Response(200,
          [total_lineage_records |-> total_lineage,
           validated_records |-> CountStatus("validated"),
           pending_records |-> CountStatus("pending"),
           failed_records |-> CountStatus("failed"),
           total_data_entries |-> total_entries,
           entries_with_lineage |-> entries_with_lineage,
           entries_without_lineage |-> total_entries - entries_with_lineage,
           lineage_coverage_percentage |->
               CoveragePercentage(entries_with_lineage, total_entries)])

\* The whole handler.
GetLineageStats == ReadOnly(LineageStatsResponse)

get_lineage_stats ==
    /\ Serving
    /\ GetLineageStats.resp.code = 200
    /\ sources' = GetLineageStats.sources
    /\ entries' = GetLineageStats.entries
    /\ lineage' = GetLineageStats.lineage
    /\ UNCHANGED <<countries, collecting, results, now, last, tags, txn>>

(***************************************************************************)
(* routes/sources.py update_source and delete_source, routes/data.py       *)
(* mark_entry_processed.                                                   *)
(***************************************************************************)
\* the identifier the collector gives its source
CollectorSourceId == "cia_factbook"

SourceIds == {SourcePool[1], CollectorSourceId, NoSource}

UpdateSourceBodies ==
    {PyDict(EmptyMap),
     PyDict("name" :> PyStr("Factbook")),
     PyDict("id" :> PyStr(SourcePool[2]))}

\* lines 93-104: the loaded source with the fields of the body assigned
UpdatedSource(row, data, at) ==
    [c \in DOMAIN row |->
        IF c \in {"name", "type"} /\ HasKey(data, c) THEN data.m[c]
        ELSE IF c = "last_updated" THEN PyDateTime(at)
        ELSE row[c]]

UpdateSource(table, source_id, data, at) ==
    LET got == GetOr404(table, source_id) IN
    IF got.raised # ""
    THEN [resp |-> ExceptException(got.raised), table |-> table]
    ELSE LET after == Commit(table, source_id, got.row, UpdatedSource(got.row, data, at)) IN
         [resp |-> Response(200, SourceToDict(after[source_id])), table |-> after]

update_source ==
    /\ Serving
    /\ \E source_id \in SourceIds, data \in UpdateSourceBodies :
        LET out == UpdateSource(sources, source_id, data, now) IN
        /\ out.resp.code = 200 => now < MaxTime
        /\ sources' = out.table
        /\ now' = IF out.resp.code = 200 THEN Later(now) ELSE now
        /\ last' = IF out.resp.code = 200
                   THEN Committed("update_source", source_id, data)
                   ELSE last
        /\ UNCHANGED <<entries, lineage, countries, collecting, results, tags, txn>>

\* DELETE FROM table WHERE id = key
Delete(table, key) == [k \in DOMAIN table \ {key} |-> table[k]]

\* the rows of Source.data_entries
DataEntriesOf(source_id) ==
    {e \in DOMAIN entries : entries[e].source_id = PyStr(source_id)}

\* the country profiles whose data_source_id is the source
CountriesOf(source_id) ==
    {c \in DOMAIN countries : countries[c].data_source_id = PyStr(source_id)}

\* The whole handler.  The flush of the delete first sets source_id of the
\* rows of Source.data_entries to NULL, which the NOT NULL column refuses; a
\* store that enforces foreign keys also refuses the delete of a source that a
\* country profile refers to.
DeleteSource(source_id, foreign_keys) ==
    LET got == GetOr404(sources, source_id) IN
    IF got.raised # ""
    THEN [resp |-> ExceptException(got.raised), table |-> sources]
    ELSE IF DataEntriesOf(source_id) # {}
            \/ (foreign_keys /\ CountriesOf(source_id) # {})
         THEN [resp |-> ExceptException("IntegrityError"), table |-> sources]
         ELSE [resp |-> Response(200, [message |-> "Source deleted successfully"]),
               table |-> Delete(sources, source_id)]

delete_source ==
    /\ Serving
    /\ \E source_id \in SourceIds, foreign_keys \in BOOLEAN :
        LET out == DeleteSource(source_id, foreign_keys) IN
        /\ out.resp.code = 200 => now < MaxTime
        /\ sources' = out.table
        /\ now' = IF out.resp.code = 200 THEN Later(now) ELSE now
        /\ last' = IF out.resp.code = 200
                   THEN Committed("delete_source", source_id, PyNone)
                   ELSE last
        /\ UNCHANGED <<entries, lineage, countries, collecting, results, tags, txn>>

\* Mark that leaves the flag as it is.
MarkEntryProcessedNoAssign(table, entry_id) ==
    LET got == GetOr404(table, entry_id) IN
    IF got.raised # ""
    THEN [resp |-> ExceptException(got.raised), table |-> table]
    ELSE [resp |-> Response(200, EntryToDict(got.row)), table |-> table]

MarkEntryProcessed(table, entry_id) ==
    LET got == GetOr404(table, entry_id) IN
    IF got.raised # ""
    THEN [resp |-> ExceptException(got.raised), table |-> table]
    ELSE LET after == Commit(table, entry_id, got.row, [got.row EXCEPT !.processed = TRUE]) IN
         [resp |-> Response(200, EntryToDict(after[entry_id])), table |-> after]

mark_entry_processed ==
    /\ Serving
    /\ \E entry_id \in EntryIds \cup {NoEntry} :
        LET out == MarkEntryProcessed(entries, entry_id) IN
        /\ out.resp.code = 200 => now < MaxTime
        /\ entries' = out.table
        /\ now' = IF out.resp.code = 200 THEN Later(now) ELSE now
        /\ last' = IF out.resp.code = 200
                   THEN Committed("mark_entry_processed", entry_id, PyNone)
                   ELSE last
        /\ UNCHANGED <<sources, lineage, countries, collecting, results, tags, txn>>

(***************************************************************************)
(* collectors/cia_factbook.py.  collect_all_data calls initialize_source    *)
(* and then, in collect_region_data, process_country_data for one country  *)
(* of the region after another; requests of the API are served in between. *)
(***************************************************************************)
CountryCodes == {"fr", "de"}

\* country_code.upper()
Upper(country_code) ==
    CASE country_code = "fr" -> "FR"
      [] country_code = "de" -> "DE"
      [] OTHER -> country_code

\* the documents fetch_country_data may hand over: the empty one, one whose
\* Government section is no mapping, one whose Government section is empty
FactbookData ==
    {PyDict(EmptyMap),
     PyDict("Government" :> PyStr("n/a")),
     PyDict("Government" :> PyDict(EmptyMap))}

RECURSIVE Concat(_)
Concat(toks) == IF toks = <<>> THEN "" ELSE Head(toks) \o Concat(Tail(toks))

\* hashlib.sha256(text.encode()).hexdigest(), a digest that tells texts apart
Sha256(text) == "sha256(" \o Concat(text.toks) \o ")"

\* datetime.isoformat()
IsoFormat(at) == ToString(at)

\* d.get(k1, {}).get(k2, {}) ... .get(kn, default): the value, or the
\* AttributeError of calling get on a value that is no dict
RECURSIVE GetPath(_, _, _)
GetPath(d, keys, default) ==
    IF d.t # "dict" THEN [raised |-> "AttributeError"]
    ELSE IF Len(keys) = 1 THEN [raised |-> "", v |-> DictGet(d, Head(keys), default)]
    ELSE GetPath(DictGet(d, Head(keys), PyDict(EmptyMap)), Tail(keys), default)

\* CountryProfile(...) as INSERTed: last_updated takes its default
CountryProfile(id, name, official_name, data_source_id, at) ==
    [id |-> PyStr(id), name |-> name, official_name |-> official_name,
     data_source_id |-> data_source_id, last_updated |-> PyDateTime(at)]

\* lines 134-143: the profile after the upsert
UpsertCountry(table, country, at) ==
    LET key == country.id.s IN
    IF key \in DOMAIN table
    THEN [table EXCEPT ![key] = [@ EXCEPT !.name = country.name,
                                          !.official_name = country.official_name,
                                          !.last_updated = PyDateTime(at)]]
    ELSE Insert(table, key, country)

\* lines 161-178: the lineage record of a collected entry
CollectedLineage(id, entry_id, content_hash, at) ==
    DataLineage(id,
                PyStr(entry_id),
                JsonDumps(PyList(<<PyDict(
                    ("source_id" :> PyStr(CollectorSourceId))
                    @@ ("collection_timestamp" :> PyStr(IsoFormat(at)))
                    @@ ("collection_method" :> PyStr("api"))
                    @@ ("raw_data_hash" :> PyStr(content_hash))
                    @@ ("transformation_applied" :>
                            PyList(<<PyStr("json_parsing"),
                                     PyStr("country_profile_extraction")>>)))>>)),
                JsonDumps(PyDict(("completeness" :> PyNum(90))
                                 @@ ("accuracy" :> PyNum(95))
                                 @@ ("timeliness" :> PyNum(80))
                                 @@ ("consistency" :> PyNum(90)))),
                PyStr("validated"),
                at)

\* lines 148-156: the data entry of a collected document
CollectedEntry(id, country_name, data) ==
    DataEntry(id, PyStr(CollectorSourceId),
              PyStr("CIA Factbook Profile: " \o country_name.s),
              JsonDumps(data), PyStr("profile"))

\* ProcessCountryData that commits the country profile before the rest.
ProcessCountryDataProfileFirst(country_code, data, foreign_keys) ==
    LET name == GetPath(data, <<"Government", "Country name", "conventional short form", "text">>,
                        PyStr(Upper(country_code)))
        official == GetPath(data, <<"Government", "Country name", "conventional long form", "text">>,
                            PyStr(""))
        failed(exc, table) == [ok |-> FALSE, raised |-> exc, countries |-> table,
                               entries |-> entries, lineage |-> lineage]
    IN IF name.raised # "" THEN failed(name.raised, countries)
       ELSE IF official.raised # "" THEN failed(official.raised, countries)
       ELSE LET country == CountryProfile(country_code, name.v, official.v,
                                          PyStr(CollectorSourceId), now)
                entry == CollectedEntry(NextEntryId, name.v, data)
            IN IF foreign_keys /\ CollectorSourceId \notin DOMAIN sources
               THEN failed("IntegrityError", UpsertCountry(countries, country, now))
               ELSE [ok |-> TRUE, raised |-> "",
                     countries |-> UpsertCountry(countries, country, now),
                     entries |-> Insert(entries, NextEntryId, entry),
                     lineage |-> Insert(lineage, NextLineageId,
                                        CollectedLineage(NextLineageId, NextEntryId,
                                                         Sha256(JsonDumps(data)), now))]

\* The whole method: its result and the three tables after it.  A store that
\* enforces foreign keys refuses the commit when the collector's source is
\* not there.
ProcessCountryData(country_code, data, foreign_keys) ==
    LET name == GetPath(data, <<"Government", "Country name", "conventional short form", "text">>,
                        PyStr(Upper(country_code)))
        official == GetPath(data, <<"Government", "Country name", "conventional long form", "text">>,
                            PyStr(""))
        failed(exc) == [ok |-> FALSE, raised |-> exc, countries |-> countries,
                        entries |-> entries, lineage |-> lineage]
    IN IF name.raised # "" THEN failed(name.raised)
       ELSE IF official.raised # "" THEN failed(official.raised)
       ELSE IF foreign_keys /\ CollectorSourceId \notin DOMAIN sources
            THEN failed("IntegrityError")
       ELSE LET country == CountryProfile(country_code, name.v, official.v,
                                          PyStr(CollectorSourceId), now)
                entry == CollectedEntry(NextEntryId, name.v, data)
            IN [ok |-> TRUE, raised |-> "",
                countries |-> UpsertCountry(countries, country, now),
                entries |-> Insert(entries, NextEntryId, entry),
                lineage |-> Insert(lineage, NextLineageId,
                                   CollectedLineage(NextLineageId, NextEntryId,
                                                    Sha256(JsonDumps(data)), now))]

\* lines 21-55: the sources table after the call (the call answers True)
InitializeSource ==
    IF QueryGet(sources, PyStr(CollectorSourceId)) # PyNone THEN sources
    ELSE Insert(sources, CollectorSourceId,
                Source(CollectorSourceId, PyStr("CIA World Factbook"), PyStr("government"), now))

\* collect_all_data starts with it; a run is under way until the loop of
\* collect_region_data has taken every code of the list
initialize_source ==
    /\ ~collecting
    /\ InitializeSource # sources => now < MaxTime
    /\ sources' = InitializeSource
    /\ collecting' = TRUE
    /\ results' = NoResults
    /\ now' = IF InitializeSource # sources THEN Later(now) ELSE now
    /\ last' = IF InitializeSource # sources
               THEN Committed("initialize_source", CollectorSourceId, PyNone)
               ELSE last
    /\ UNCHANGED <<entries, lineage, countries, tags, txn>>

\* a call of the method for any country and any document
process_country_data ==
    /\ collecting
    /\ \E country_code \in CountryCodes, data \in FactbookData, foreign_keys \in BOOLEAN :
          LET out == ProcessCountryData(country_code, data, foreign_keys) IN
          /\ out.ok
          /\ now < MaxTime
          /\ Cardinality(DOMAIN entries) < MaxEntries
          /\ Cardinality(DOMAIN lineage) < MaxLineage
          /\ countries' = out.countries
          /\ entries' = out.entries
          /\ lineage' = out.lineage
          /\ now' = Later(now)
          /\ last' = Committed("process_country_data", NextLineageId, data)
          /\ UNCHANGED <<sources, collecting, results, tags, txn>>

\* get_country_list(region): the codes of the region, in the order of the list
CountryList == <<"fr", "de">>

\* what fetch_country_data may return: a document, or None
FetchedData == FactbookData \cup {PyNone}

\* the code the loop of collect_region_data takes next
NextCountry == CountryList[Cardinality(DOMAIN results) + 1]

\* lines 199-205, one turn of the loop: the document is processed when it is
\* truthy, and the country is flagged False without a call when it is not
CollectCountry(country_code, data, foreign_keys) ==
    IF Truthy(data) THEN ProcessCountryData(country_code, data, foreign_keys)
    ELSE [ok |-> FALSE, raised |-> "", countries |-> countries,
          entries |-> entries, lineage |-> lineage]

collect_region_data ==
    /\ collecting
    /\ \E data \in FetchedData, foreign_keys \in BOOLEAN :
          LET out == CollectCountry(NextCountry, data, foreign_keys) IN
          /\ out.ok => /\ now < MaxTime
                       /\ Cardinality(DOMAIN entries) < MaxEntries
                       /\ Cardinality(DOMAIN lineage) < MaxLineage
          /\ countries' = out.countries
          /\ entries' = out.entries
          /\ lineage' = out.lineage
          /\ results' = results @@ (NextCountry :> out.ok)
          /\ collecting' = (Cardinality(DOMAIN results) + 1 < Len(CountryList))
          /\ now' = IF out.ok THEN Later(now) ELSE now
          /\ last' = IF out.ok
                     THEN Committed("process_country_data", NextLineageId, data)
                     ELSE last
          /\ UNCHANGED <<sources, tags, txn>>

(***************************************************************************)
(* routes/tags.py create_bulk_tags.  The tags table is the list of its     *)
(* rows in the order of their integer ids.                                 *)
(***************************************************************************)
ValidTag ==
    PyDict(("data_entry_id" :> PyStr(EntryPool[1]))
           @@ ("tag_type" :> PyStr("topic"))
           @@ ("tag_value" :> PyStr("trade")))

\* a tag without tag_value
LackingTag ==
    PyDict(("data_entry_id" :> PyStr(EntryPool[1])) @@ ("tag_type" :> PyStr("topic")))

Batches ==
    {<<>>, <<ValidTag>>, <<LackingTag>>, <<ValidTag, ValidTag>>,
     <<ValidTag, LackingTag>>, <<LackingTag, ValidTag>>}

BulkBodies == {PyDict("tags" :> PyList(batch)) : batch \in Batches} \cup {PyDict(EmptyMap)}

\* Tag(...) as INSERTed: the id is the next integer, created_at its default
Tag(id, tag_data, at) ==
    [id |-> id,
     data_entry_id |-> tag_data.m["data_entry_id"],
     tag_type |-> tag_data.m["tag_type"],
     tag_value |-> tag_data.m["tag_value"],
     created_at |-> PyDateTime(at)]

\* Tag.to_dict
TagToDict(row) == row

RECURSIVE BulkLoop(_, _)
\* lines 92-111, the loop over tags_data: the 400 that ends it or no answer
\* yet, and the tags added to the session so far
BulkLoop(tags_data, created_tags) ==
    IF tags_data = <<>> THEN [resp |-> PyNone, created_tags |-> created_tags]
    ELSE LET tag_data == Head(tags_data)
             missing == FirstMissing(tag_data, <<"data_entry_id", "tag_type", "tag_value">>)
         IN IF missing # ""
            THEN [resp |-> Response(400, [error |-> "Missing required field: "
                                                     \o missing \o " in tag"]),
                  created_tags |-> created_tags]
            ELSE BulkLoop(Tail(tags_data), Append(created_tags, tag_data))

\* db.session.commit() of line 113: the INSERT of every tag of the session
InsertTags(table, created_tags, at) ==
    table \o [i \in 1..Len(created_tags) |-> Tag(Len(table) + i, created_tags[i], at)]

\* The end of a request that commits what its session still holds.
ShutdownSessionCommits(table, created_tags, at) == InsertTags(table, created_tags, at)

\* The end of a request that returned without commit or rollback: the
\* session is removed, and what was added to it is dropped.
ShutdownSession(table, created_tags, at) == table

\* the tags of the session that name no data entry
Unreferenced(created_tags) ==
    {i \in 1..Len(created_tags) : QueryGet(entries, created_tags[i].m["data_entry_id"]) = PyNone}

\* The whole handler: the answer and the tags table after the request.  A
\* store that enforces foreign keys refuses a tag of an unknown entry.
CreateBulkTags(data, foreign_keys) ==
    LET tags_data == DictGet(data, "tags", PyList(<<>>)) IN
    IF ~Truthy(tags_data)
    THEN [resp |-> Response(400, [error |-> "No tags provided"]),
          table |-> ShutdownSession(tags, <<>>, now)]
    ELSE LET loop == BulkLoop(tags_data.items, <<>>) IN
         IF loop.resp # PyNone
         THEN [resp |-> loop.resp, table |-> ShutdownSession(tags, loop.created_tags, now)]
         ELSE IF foreign_keys /\ Unreferenced(loop.created_tags) # {}
              THEN [resp |-> ExceptException("IntegrityError"), table |-> tags]
              ELSE LET after == InsertTags(tags, loop.created_tags, now) IN
                   [resp |-> Response(201,
                                [created_tags |-> [i \in 1..Len(loop.created_tags) |->
                                                      TagToDict(after[Len(tags) + i])],
                                 count |-> Len(loop.created_tags)]),
                    table |-> after]

create_bulk_tags ==
    /\ Serving
    /\ \E data \in BulkBodies, foreign_keys \in BOOLEAN :
        LET out == CreateBulkTags(data, foreign_keys) IN
        /\ out.resp.code = 201 => now < MaxTime /\ Len(out.table) <= MaxTags
        /\ tags' = out.table
        /\ now' = IF out.resp.code = 201 THEN Later(now) ELSE now
        /\ last' = IF out.resp.code = 201 THEN Committed("create_bulk_tags", "", data) ELSE last
        /\ UNCHANGED <<sources, entries, lineage, countries, collecting, results, txn>>

(***************************************************************************)
(* routes/data.py create_country_profile.                                  *)
(***************************************************************************)
CountryBodies ==
    {PyDict(a @@ b @@ c) :
        a \in Opt("id", {PyStr(CountryList[1])}),
        b \in Opt("name", {PyStr("France")}),
        c \in Opt("official_name", {PyStr("French Republic")})}

\* CountryProfile.to_dict
CountryToDict(row) == row

\* lines 152-157: the loaded profile with the fields of the body assigned
UpdatedCountry(row, data, at) ==
    [c \in DOMAIN row |->
        IF c \in {"name", "official_name", "data_source_id"} /\ HasKey(data, c) THEN data.m[c]
        ELSE IF c = "last_updated" THEN PyDateTime(at)
        ELSE row[c]]

\* lines 166-183: the profile built from the body
NewCountry(data, at) ==
    CountryProfile(data.m["id"].s, data.m["name"],
                   DictGet(data, "official_name", PyNone),
                   DictGet(data, "data_source_id", PyNone), at)

\* `201 if not country else 200` of line 186: country is by then the profile
\* that was loaded or the one that was built, and an object is truthy
StatusOf(country) == IF country = PyNone THEN 201 ELSE 200

\* The whole handler: the answer and the country profiles after it.
CreateCountryProfile(data) ==
    LET missing == FirstMissing(data, <<"id", "name">>) IN
    IF missing # "" THEN [resp |-> MissingField(missing), table |-> countries]
    ELSE LET found == QueryGet(countries, data.m["id"])
             key == data.m["id"].s
             after == IF found # PyNone
                      THEN Commit(countries, key, found, UpdatedCountry(found, data, now))
                      ELSE Insert(countries, key, NewCountry(data, now))
             country == after[key]
         IN [resp |-> Response(StatusOf(country), CountryToDict(country)),
             table |-> after]

create_country_profile ==
    /\ Serving
    /\ \E data \in CountryBodies :
        LET out == CreateCountryProfile(data) IN
        /\ out.resp.code \in {200, 201} => now < MaxTime
        /\ countries' = out.table
        /\ now' = IF out.resp.code \in {200, 201} THEN Later(now) ELSE now
        /\ last' = IF out.resp.code \in {200, 201}
                   THEN Committed("create_country_profile", data.m["id"].s, data)
                   ELSE last
        /\ UNCHANGED <<sources, entries, lineage, tags, collecting, results, txn>>

(***************************************************************************)
(* The service handling one request at a time.                             *)
(***************************************************************************)
Next ==
    \/ create_source
    \/ create_data_entry
    \/ create_lineage_record
    \/ validate_lineage
    \/ trace_data_lineage
    \/ get_quality_report
    \/ get_lineage_stats
    \/ update_source
    \/ delete_source
    \/ mark_entry_processed
    \/ initialize_source
    \/ process_country_data

Spec == Init /\ [][Next]_vars

(***************************************************************************)
(* A run of the collector over the countries of a region, with the         *)
(* requests that write the tables the run writes or refers to: sources,    *)
(* data entries, country profiles and tags.                                *)
(***************************************************************************)
NextCollect ==
    \/ initialize_source
    \/ collect_region_data
    \/ create_source
    \/ create_data_entry
    \/ delete_source
    \/ create_bulk_tags
    \/ create_country_profile

SpecCollect == Init /\ [][NextCollect]_vars

(***************************************************************************)
(* Two validate requests in flight at once.  app.run (main.py) serves each  *)
(* request on a thread of its own, db.session is scoped to the request,    *)
(* and the handler takes no row lock.  A request reads the row and assigns *)
(* the attributes (lines 87-99), and later commits (line 101).  The        *)
(* behaviours start with one source, one entry, the lineage row the         *)
(* requests validate and a second lineage row of the entry, as              *)
(* create_source, create_data_entry and create_lineage_record leave them.  *)
(***************************************************************************)
ConcSource == Source("s1", PyStr("CIA World Factbook"), PyStr("government"), 0)

ConcEntry == DataEntry("e1", PyStr("s1"), PyStr("Profile"), PyStr("raw"), PyStr("article"))

ConcBodies == {data \in CreateLineageBodies :
                  /\ HasKey(data, "data_entry_id") /\ HasKey(data, "source_chain")
                  /\ data.m["data_entry_id"] = PyStr("e1")}

\* the row no request of these behaviours names
ConcOtherLineage ==
    LineageRow("l2", PyDict(("data_entry_id" :> PyStr("e1"))
                            @@ ("source_chain" :> PyList(<<PyStr("s1")>>))), 3)

InitConc ==
    /\ sources = ("s1" :> ConcSource)
    /\ entries = ("e1" :> ConcEntry)
    /\ countries = EmptyTable
    /\ tags = <<>>
    /\ collecting = FALSE
    /\ results = NoResults
    /\ \E data \in ConcBodies :
          /\ lineage = ("l1" :> LineageRow("l1", data, 2)) @@ ("l2" :> ConcOtherLineage)
          /\ last = Committed("create_lineage_record", "l1", data)
    /\ now = 4
    /\ txn = [w \in Workers |-> Idle]

\* lines 87-99 in worker w's session
BeginValidate(w) ==
    /\ txn[w].pc = "idle"
    /\ \E lineage_id \in {"l1", NoLineage}, data \in ValidateBodies :
          LET got == GetOr404(lineage, lineage_id) IN
          IF got.raised # ""
          THEN txn' = [txn EXCEPT ![w] = [pc |-> "done", lineage_id |-> lineage_id,
                                          data |-> data, code |-> 500]]
          ELSE LET s == ValidateSession(got.row, data, now) IN
               IF s.raised # ""
               THEN txn' = [txn EXCEPT ![w] = [pc |-> "done", lineage_id |-> lineage_id,
                                               data |-> data, code |-> 500]]
               ELSE txn' = [txn EXCEPT ![w] = [pc |-> "loaded", lineage_id |-> lineage_id,
                                               data |-> data, loaded |-> got.row,
                                               obj |-> s.obj]]
    /\ UNCHANGED <<sources, entries, lineage, countries, collecting, results, tags, now, last>>

\* line 101 in worker w's session
CommitValidate(w) ==
    /\ txn[w].pc = "loaded"
    /\ lineage' = Commit(lineage, txn[w].lineage_id, txn[w].loaded, txn[w].obj)
    /\ now' = Later(now)
    /\ last' = Committed("validate_lineage", txn[w].lineage_id, txn[w].data)
    /\ txn' = [txn EXCEPT ![w] = [pc |-> "done", lineage_id |-> txn[w].lineage_id,
                                  data |-> txn[w].data, code |-> 200,
                                  loaded |-> txn[w].loaded, obj |-> txn[w].obj,
                                  at |-> now]]
    /\ UNCHANGED <<sources, entries, countries, collecting, results, tags>>

NextConc == \E w \in Workers : BeginValidate(w) \/ CommitValidate(w)

SpecConc == InitConc /\ [][NextConc]_vars

(***************************************************************************)
(* Properties.  A property of a handler is stated over every reachable     *)
(* state and every request of the input sets: the handler's answer and the *)
(* table it leaves are the values of the operators the actions apply.      *)
(***************************************************************************)
Recognized == {"completeness", "accuracy", "timeliness", "consistency"}

\* the stored quality-metrics document of a row
StoredMetrics(row) == JsonLoads(row.quality_metrics)

\* quality-metrics partials that are non-empty mappings
MappingPartials == {p \in ValidateMetrics : p.t = "dict" /\ DOMAIN p.m # {}}

MetricsBody(p) == PyDict("quality_metrics" :> p)

\* the value of quality_metrics in a validate body ({} when absent)
PartialOf(data) == DictGet(data, "quality_metrics", PyDict(EmptyMap))

\* C1: for any lineage record, after two validate operations, one after the
\* other, with disjoint quality-metrics partials, the stored mapping holds the
\* keys of both partials with the values they gave.
C1_DisjointValidatesMerge ==
    \A id \in DOMAIN lineage : \A p1, p2 \in MappingPartials :
        DOMAIN p1.m \cap DOMAIN p2.m = {} =>
            LET first == ValidateLineage(lineage, id, MetricsBody(p1), now)
                second == ValidateLineage(first.table, id, MetricsBody(p2), Later(now))
                stored == StoredMetrics(second.table[id])
            IN /\ stored.t = "dict"
               /\ \A k \in DOMAIN p1.m : k \in DOMAIN stored.m /\ stored.m[k] = p1.m[k]
               /\ \A k \in DOMAIN p2.m : k \in DOMAIN stored.m /\ stored.m[k] = p2.m[k]

\* The same for the rows whose stored document is a mapping (it holds; the rows
\* C1 fails on are those created with a quality_metrics that is no mapping).
MergeOnMappingRows ==
    \A id \in DOMAIN lineage : \A data \in ValidateBodies :
        LET before == StoredMetrics(lineage[id])
            partial == PartialOf(data)
            out == ValidateLineage(lineage, id, data, now)
        IN before.t = "dict" /\ partial.t = "dict" =>
              /\ out.resp.code = 200
              /\ StoredMetrics(out.table[id]) = PyDict(UpdateMap(before.m, partial.m))

(***************************************************************************)
(* C2, under SpecConc.                                                     *)
(***************************************************************************)
\* worker w committed an UPDATE that set the quality_metrics column
WroteMetrics(w) ==
    /\ txn[w].pc = "done"
    /\ txn[w].code = 200
    /\ txn[w].obj.quality_metrics # txn[w].loaded.quality_metrics

MetricsWriters == {w \in Workers : WroteMetrics(w)}

LastMetricsWriter == CHOOSE w \in MetricsWriters : \A v \in MetricsWriters : txn[v].at <= txn[w].at

\* the merge worker w computed from the row as it had read it
MergeComputedBy(w) ==
    JsonDumps(PyDict(UpdateMap(StoredMetrics(txn[w].loaded).m, PartialOf(txn[w].data).m)))

\* C2: with validates of one row in flight together, the stored mapping is the
\* merge computed by the request whose write of the column committed last, from
\* the row as that request had read it.
C2_LastCommitWins ==
    MetricsWriters # {} => lineage["l1"].quality_metrics = MergeComputedBy(LastMetricsWriter)

\* C2, witness: both requests answered 200, and a key the earlier committer
\* supplied is missing from the stored mapping.
C2_LostUpdate ==
    \E a, b \in Workers :
        /\ WroteMetrics(a) /\ WroteMetrics(b)
        /\ txn[a].at < txn[b].at
        /\ \E k \in DOMAIN PartialOf(txn[a].data).m :
              /\ k \notin DOMAIN StoredMetrics(txn[a].loaded).m
              /\ k \notin DOMAIN StoredMetrics(lineage["l1"]).m

(***************************************************************************)
(* C3 - C10, under Spec.                                                   *)
(***************************************************************************)
\* a create body whose data_entry_id names no data entry
NamesNoEntry(data) ==
    HasKey(data, "data_entry_id") /\ QueryGet(entries, data.m["data_entry_id"]) = PyNone

\* C3, as claimed: creating a lineage record whose data_entry_id does not
\* resolve always fails with NotFound and leaves the lineage records as they were.
C3_UnknownEntryIsNotFound ==
    \A data \in CreateLineageBodies :
        NamesNoEntry(data) =>
            /\ CreateLineageRecord(data).resp.code = 404
            /\ CreateLineageRecord(data).table = lineage

\* C3, amended: such a request fails with NotFound when it carries source_chain
\* and with the missing-field error when it does not; either way the lineage
\* records are as they were.
C3_UnknownEntryFails ==
    \A data \in CreateLineageBodies :
        NamesNoEntry(data) =>
            /\ CreateLineageRecord(data).resp.code =
                  (IF HasKey(data, "source_chain") THEN 404 ELSE 400)
            /\ CreateLineageRecord(data).table = lineage

\* C3, witness: entries and lineage rows exist, and a complete request names an
\* entry that does not and is answered 404.
C3_Witness ==
    /\ DOMAIN entries # {} /\ DOMAIN lineage # {}
    /\ \E data \in CreateLineageBodies :
          /\ NamesNoEntry(data) /\ HasKey(data, "source_chain")
          /\ CreateLineageRecord(data).resp.code = 404

\* C4: validate on an identifier that names no lineage record is answered with
\* NotFound (404, not 500) and leaves every lineage record unchanged.
C4_UnknownLineageIsNotFound ==
    \A lineage_id \in (LineageIds \cup {NoLineage}) \ DOMAIN lineage :
        \A data \in ValidateBodies :
            /\ ValidateLineage(lineage, lineage_id, data, now).resp.code = 404
            /\ ValidateLineage(lineage, lineage_id, data, now).table = lineage

\* C5: trace on an identifier that names no data entry is answered with
\* NotFound (404, not 500).
C5_UnknownEntryTraceIsNotFound ==
    \A data_entry_id \in (EntryIds \cup {NoEntry}) \ DOMAIN entries :
        TraceResponse(data_entry_id).code = 404

\* C6: every validate answered 200 leaves the row's last_verified at the current
\* time, with or without quality metrics in the request, and that time is not
\* before the row's created_at.
C6_ValidateStampsLastVerified ==
    \A id \in DOMAIN lineage : \A data \in ValidateBodies :
        LET out == ValidateLineage(lineage, id, data, now) IN
        out.resp.code = 200 =>
            /\ out.table[id].last_verified = PyDateTime(now)
            /\ out.table[id].last_verified.at >= out.table[id].created_at.at

\* C6, witness: the request committed last was a validate with an empty
\* quality_metrics, and its row carries the time of that commit.
C6_Witness ==
    /\ last.op = "validate_lineage"
    /\ HasKey(last.data, "quality_metrics") /\ ~Truthy(last.data.m["quality_metrics"])
    /\ Later(lineage[last.arg].last_verified.at) = now
    /\ lineage[last.arg].last_verified.at >= lineage[last.arg].created_at.at

\* C7: a validate that raises after validation_status and last_verified were
\* assigned is rolled back: the table is as before the call, and the answer is
\* the error body with code 500.
C7_FailedValidateRollsBack ==
    \A id \in DOMAIN lineage : \A data \in ValidateBodies :
        LET s == ValidateSession(lineage[id], data, now)
            out == ValidateLineage(lineage, id, data, now)
        IN s.raised # "" =>
              /\ out.table = lineage
              /\ out.resp.code = 500
              /\ DOMAIN out.resp.body = {"error"}

\* C7, witness: a row validated before, and a request on it whose merge raises
\* once a different status and a later time are assigned.
C7_Witness ==
    \E id \in DOMAIN lineage : \E data \in ValidateBodies :
        LET s == ValidateSession(lineage[id], data, now) IN
        /\ lineage[id].last_verified # PyNone
        /\ s.raised # ""
        /\ s.obj.validation_status # lineage[id].validation_status
        /\ s.obj.last_verified # lineage[id].last_verified

\* C8: the stored quality-metrics mapping of every lineage record has only the
\* keys completeness, accuracy, timeliness and consistency.
C8_OnlyRecognizedKeys ==
    \A id \in DOMAIN lineage :
        StoredMetrics(lineage[id]).t = "dict" =>
            DOMAIN StoredMetrics(lineage[id]).m \subseteq Recognized

\* C9: the validation_status of every lineage record is pending, validated or
\* failed.
C9_StatusInEnumeration ==
    \A id \in DOMAIN lineage :
        lineage[id].validation_status \in {PyStr("pending"), PyStr("validated"), PyStr("failed")}

\* C10: when no lineage record has a quality-metrics document, the quality
\* report is the "no data" result: a message and total_records = 0, with no
\* averages and no distribution.
C10_NoDataResult ==
    ScannedRecords = <<>> =>
        /\ QualityReportResponse.code = 200
        /\ DOMAIN QualityReportResponse.body = {"message", "total_records"}
        /\ QualityReportResponse.body.total_records = 0

\* C10, witness: data entries exist, no lineage record does, and the report is
\* asked for.
C10_Witness ==
    /\ DOMAIN entries # {}
    /\ ScannedRecords = <<>>
    /\ "message" \in DOMAIN QualityReportResponse.body

(***************************************************************************)
(* C11 - C13: the quality report.                                          *)
(***************************************************************************)
\* the report is a regular one: records were scanned and the answer is 200
RegularReport == ScannedRecords # <<>> /\ QualityReportResponse.code = 200

\* the scanned records in which the metric is present and not null
Contributing(metric) ==
    {i \in 1..Len(ScannedRecords) :
        LET stored == StoredMetrics(ScannedRecords[i]) IN
        /\ stored.t = "dict"
        /\ metric \in DOMAIN stored.m
        /\ stored.m[metric] # PyNone}

RECURSIVE SumOf(_, _)
\* the sum of f over the set S
SumOf(f, S) ==
    IF S = {} THEN 0
    ELSE LET x == CHOOSE y \in S : TRUE IN f[x] + SumOf(f, S \ {x})

\* the values of the metric in the scanned records
MetricValues(metric) ==
    [i \in Contributing(metric) |-> StoredMetrics(ScannedRecords[i]).m[metric].n]

\* C11: in a regular report, the average of each of the four metrics is the
\* sum of its values over the scanned records that have it present and not
\* null, divided by the number of those records, and its coverage is that
\* number, "/", the number of scanned records.
C11_MeanAndCoverage ==
    RegularReport =>
        \A metric \in Recognized :
            LET body == QualityReportResponse.body
                count == Cardinality(Contributing(metric))
            IN /\ body.quality_metric_coverage[metric] =
                      ToString(count) \o "/" \o ToString(Len(ScannedRecords))
               /\ count > 0 =>
                      /\ body.average_quality_metrics[metric].den = count
                      /\ body.average_quality_metrics[metric].num =
                             SumOf(MetricValues(metric), Contributing(metric))

\* C11, witness: a regular report over two records of which one has accuracy,
\* so that its coverage is "1/2".
C11_Witness ==
    /\ RegularReport
    /\ Len(ScannedRecords) = 2
    /\ Cardinality(Contributing("accuracy")) = 1
    /\ QualityReportResponse.body.quality_metric_coverage["accuracy"] = "1/2"

\* C12: in a regular report, a metric that no scanned record has present and
\* not null is reported with the average None, not 0.
C12_NoContributionIsNull ==
    RegularReport =>
        \A metric \in Recognized :
            Contributing(metric) = {} =>
                QualityReportResponse.body.average_quality_metrics[metric] = PyNone

\* C12, witness: a regular report in which accuracy has an average and
\* timeliness has none.
C12_Witness ==
    /\ RegularReport
    /\ Contributing("accuracy") # {}
    /\ Contributing("timeliness") = {}
    /\ QualityReportResponse.body.average_quality_metrics["timeliness"] = PyNone

\* C13: in a regular report, every scanned record is counted in the bucket of
\* its own status, whatever that status is, and in no other, so that the
\* buckets sum to total_records.
C13_EveryRecordInOneBucket ==
    RegularReport =>
        LET body == QualityReportResponse.body
            buckets == body.validation_status_distribution
        IN /\ \A i \in 1..Len(ScannedRecords) :
                  ScannedRecords[i].validation_status \in DOMAIN buckets
           /\ \A k \in DOMAIN buckets :
                  buckets[k] = Cardinality({i \in 1..Len(ScannedRecords) :
                                               ScannedRecords[i].validation_status = k})
           /\ SumOf(buckets, DOMAIN buckets) = body.total_records
           /\ body.total_records = Len(ScannedRecords)

\* C13, witness: a regular report over records of which one has a status
\* outside validated, pending and failed.
C13_Witness ==
    /\ RegularReport
    /\ \E i \in 1..Len(ScannedRecords) :
          /\ ScannedRecords[i].validation_status = PyStr("archived")
          /\ QualityReportResponse.body.validation_status_distribution[PyStr("archived")] >= 1

(***************************************************************************)
(* C14: coverage statistics.                                               *)
(***************************************************************************)
\* the data entries that have at least one lineage record
EntriesWithLineage ==
    {e \in DOMAIN entries : \E id \in DOMAIN lineage : lineage[id].data_entry_id = PyStr(e)}

Abs(x) == IF x < 0 THEN -x ELSE x

\* p hundredths of a percent is with / total * 100 rounded to two decimals
IsRoundedPercentage(p, with, total) == 2 * Abs(p * total - with * 10000) <= total

\* C14: entries_with_lineage is the number of data entries that have a lineage
\* record, entries_without_lineage is total_data_entries less that number,
\* and lineage_coverage_percentage is their ratio times 100 rounded to two
\* decimals, or 0 when there is no data entry; 4 of 10 gives 40.0.
C14_CoverageStatistics ==
    LET body == LineageStatsResponse.body
        total == Cardinality(DOMAIN entries)
        with == Cardinality(EntriesWithLineage)
    IN /\ LineageStatsResponse.code = 200
       /\ body.total_data_entries = total
       /\ body.entries_with_lineage = with
       /\ body.entries_without_lineage = total - with
       /\ total = 0 => body.lineage_coverage_percentage = 0
       /\ total > 0 => IsRoundedPercentage(body.lineage_coverage_percentage, with, total)
       /\ \A t \in 1..MaxStat : \A w \in 0..t :
              IsRoundedPercentage(CoveragePercentage(w, t), w, t)
       /\ CoveragePercentage(4, 10) = 4000
       /\ CoveragePercentage(0, 0) = 0

\* C14, witness: two data entries, one with two lineage records and one with
\* none, or one data entry with two lineage records: entries_with_lineage is 1.
C14_Witness ==
    /\ Cardinality(DOMAIN lineage) = 2
    /\ LineageStatsResponse.body.entries_with_lineage = 1
    /\ LineageStatsResponse.body.entries_without_lineage = Cardinality(DOMAIN entries) - 1
    /\ LineageStatsResponse.body.lineage_coverage_percentage \in {5000, 10000}

(***************************************************************************)
(* C15: trace.                                                             *)
(***************************************************************************)
\* the lineage rows of a data entry
LineageOf(data_entry_id) ==
    {id \in DOMAIN lineage : lineage[id].data_entry_id = PyStr(data_entry_id)}

\* C15: the trace of an existing data entry is answered 200 with the lineage
\* records of that entry, each once, and no other, and total_lineage_records
\* is their number (0 for an entry without lineage).
C15_TraceReturnsOwnRecords ==
    \A e \in DOMAIN entries :
        LET resp == TraceResponse(e)
            records == resp.body.lineage_records
        IN /\ resp.code = 200
           /\ {records[i].id : i \in 1..Len(records)} = {PyStr(id) : id \in LineageOf(e)}
           /\ Len(records) = Cardinality(LineageOf(e))
           /\ \A i \in 1..Len(records) : records[i] = LineageToDict(lineage[records[i].id.s])
           /\ resp.body.total_lineage_records = Len(records)
           /\ resp.body.data_entry = EntryToDict(entries[e])

\* C15, witness: two entries with lineage rows of their own, and an entry
\* whose trace has one record of the two.
C15_Witness ==
    /\ Cardinality(DOMAIN lineage) = 2
    /\ \E e \in DOMAIN entries :
          /\ TraceResponse(e).body.total_lineage_records = 1
          /\ Cardinality(LineageOf(e)) = 1

\* C15, the entry without lineage: its trace is empty and counts 0.
TraceOfEntryWithoutLineage ==
    \A e \in DOMAIN entries :
        LineageOf(e) = {} =>
            /\ TraceResponse(e).body.lineage_records = <<>>
            /\ TraceResponse(e).body.total_lineage_records = 0

(***************************************************************************)
(* C16 - C20: steps of the service.  The step of a committed request is    *)
(* the one that moves the clock and leaves the request in last.            *)
(***************************************************************************)
CommittedStep(op) == now' # now /\ last'.op = op

\* C16: a create answered 201 adds one lineage row under an identifier no row
\* had, with the data_entry_id and the source chain of the request, its
\* quality_metrics or the empty mapping, its validation_status or pending;
\* the data entries and the lineage rows there were are unchanged.
C16_CreateFrame ==
    [][CommittedStep("create_lineage_record") =>
          LET id == last'.arg
              data == last'.data
          IN /\ id \notin DOMAIN lineage
             /\ DOMAIN lineage' = DOMAIN lineage \cup {id}
             /\ \A k \in DOMAIN lineage : lineage'[k] = lineage[k]
             /\ entries' = entries
             /\ lineage'[id].id = PyStr(id)
             /\ lineage'[id].data_entry_id = data.m["data_entry_id"]
             /\ JsonLoads(lineage'[id].source_chain) = data.m["source_chain"]
             /\ StoredMetrics(lineage'[id]) =
                    (IF HasKey(data, "quality_metrics") THEN data.m["quality_metrics"]
                     ELSE PyDict(EmptyMap))
             /\ lineage'[id].validation_status =
                    (IF HasKey(data, "validation_status") THEN data.m["validation_status"]
                     ELSE PyStr("pending"))]_vars

\* C16, witness: the second lineage row was created from a body with a
\* source chain of one step and neither optional member.
C16_Witness ==
    /\ last.op = "create_lineage_record"
    /\ Cardinality(DOMAIN lineage) = 2
    /\ DOMAIN last.data.m = {"data_entry_id", "source_chain"}
    /\ JsonLoads(lineage[last.arg].source_chain) = PyList(<<PyStr("s1")>>)
    /\ StoredMetrics(lineage[last.arg]) = PyDict(EmptyMap)
    /\ lineage[last.arg].validation_status = PyStr("pending")

\* C17: last_verified of a lineage record is None when the record is inserted,
\* and stops being None only in the step of a committed validate of that
\* record.
C17_UnverifiedUntilValidated ==
    [][\A id \in DOMAIN lineage' :
          (/\ lineage'[id].last_verified # PyNone
           /\ (id \in DOMAIN lineage => lineage[id].last_verified = PyNone))
          => (CommittedStep("validate_lineage") /\ last'.arg = id)]_vars

\* C17, witness: a record collected with the status validated and a record
\* created through the API, neither validated, both with last_verified None.
C17_Witness ==
    /\ \E id \in DOMAIN lineage :
          /\ lineage[id].validation_status = PyStr("validated")
          /\ lineage[id].last_verified = PyNone
    /\ \E id \in DOMAIN lineage :
          /\ lineage[id].validation_status = PyStr("archived")
          /\ lineage[id].last_verified = PyNone

\* C18: the data_entry_id of every lineage record is the id of a data entry.
C18_LineageRefersToEntry ==
    \A id \in DOMAIN lineage :
        /\ lineage[id].data_entry_id.t = "str"
        /\ lineage[id].data_entry_id.s \in DOMAIN entries

\* C18, witness: a lineage row of the collector and one of the API, in a
\* state where a create for an unknown entry is refused.
C18_Witness ==
    /\ \E id \in DOMAIN lineage : lineage[id].validation_status = PyStr("validated")
    /\ \E id \in DOMAIN lineage : lineage[id].validation_status = PyStr("pending")
    /\ \E data \in CreateLineageBodies :
          NamesNoEntry(data) /\ CreateLineageRecord(data).resp.code = 404

\* C19: the source_id of every data entry is the id of a source.
C19_EntryRefersToSource ==
    \A e \in DOMAIN entries :
        /\ entries[e].source_id.t = "str"
        /\ entries[e].source_id.s \in DOMAIN sources

\* The entries C19 fails on are those of the collector; create_data_entry,
\* update_source and delete_source leave every entry with its source.
OnlyCollectedEntriesLackSource ==
    \A e \in DOMAIN entries :
        entries[e].source_id.s \notin DOMAIN sources =>
            entries[e].source_id = PyStr(CollectorSourceId)

NamesExistingSource(data) ==
    HasKey(data, "id") /\ QueryGet(sources, data.m["id"]) # PyNone

C21_SourceIdUniqueImmutable ==
    /\ \A id \in DOMAIN sources : sources[id].id = PyStr(id)
    /\ \A data \in SourceBodies :
          NamesExistingSource(data) =>
              /\ CreateSource(data).resp.code \in {400, 409}
              /\ CreateSource(data).table = sources
    /\ CollectorSourceId \in DOMAIN sources => InitializeSource = sources
    /\ \A source_id \in SourceIds, data \in UpdateSourceBodies :
          LET out == UpdateSource(sources, source_id, data, now) IN
          /\ DOMAIN out.table = DOMAIN sources
          /\ \A id \in DOMAIN sources : out.table[id].id = sources[id].id

\* a source exists, requests name it again, and the update that committed
\* last carried an id of its own
C21_Witness ==
    /\ \E data \in SourceBodies :
          NamesExistingSource(data) /\ CreateSource(data).resp.code = 409
    /\ last.op = "update_source"
    /\ HasKey(last.data, "id")
    /\ last.data.m["id"] # PyStr(last.arg)
    /\ sources[last.arg].id = PyStr(last.arg)
    /\ sources[last.arg].last_updated = PyDateTime(now - 1)

(***************************************************************************)
(* C22.  Trace, quality report and coverage statistics are read-only: the  *)
(* sources, data entries and lineage records after each of them are those  *)
(* before it, for every entry id asked for and whether the answer is 200   *)
(* or 500.                                                                 *)
(***************************************************************************)
Store == <<sources, entries, lineage>>

StoreAfter(out) == <<out.sources, out.entries, out.lineage>>

C22_ReadsLeaveStore ==
    /\ \A data_entry_id \in EntryIds \cup {NoEntry} :
          StoreAfter(TraceDataLineage(data_entry_id)) = Store
    /\ StoreAfter(GetQualityReport) = Store
    /\ StoreAfter(GetLineageStats) = Store

\* a store with a lineage record where one trace succeeds, another fails, the
\* report fails and the statistics count the record
C22_Witness ==
    /\ lineage # EmptyTable
    /\ \E data_entry_id \in EntryIds :
          /\ TraceDataLineage(data_entry_id).resp.code = 200
          /\ TraceDataLineage(data_entry_id).resp.body.total_lineage_records > 0
    /\ TraceDataLineage(NoEntry).resp.code = 500
    /\ GetQualityReport.resp.code = 500
    /\ GetLineageStats.resp.body.total_lineage_records > 0

(***************************************************************************)
(* C23.  A create-lineage request lacking data_entry_id or source_chain    *)
(* is answered with the validation error (400) that names the first        *)
(* missing field, data_entry_id before source_chain, persists nothing, and *)
(* is answered so whether or not the entry it names exists.                *)
(***************************************************************************)
Lacks(data, field) == data.t # "dict" \/ ~HasKey(data, field)

FirstLacking(data) ==
    IF Lacks(data, "data_entry_id") THEN "data_entry_id" ELSE "source_chain"

C23_MissingFieldIsValidationError ==
    \A data \in CreateLineageRequests :
        Lacks(data, "data_entry_id") \/ Lacks(data, "source_chain") =>
            /\ CreateLineageRecord(data).resp = MissingField(FirstLacking(data))
            /\ CreateLineageRecord(data).table = lineage

\* What the handler keeps of C23: a JSON object lacking a field is answered as
\* claimed, before the lookup of the entry, and no request lacking a field
\* persists anything.
ObjectLackingFieldIsValidationError ==
    \A data \in CreateLineageRequests :
        Lacks(data, "data_entry_id") \/ Lacks(data, "source_chain") =>
            /\ data.t = "dict" =>
                  CreateLineageRecord(data).resp = MissingField(FirstLacking(data))
            /\ CreateLineageRecord(data).resp.code \in {400, 500}
            /\ CreateLineageRecord(data).table = lineage

(***************************************************************************)
(* C24.  In every store state reachable through create-lineage and         *)
(* validate requests, among them requests whose quality_metrics is null or *)
(* no mapping, the quality report answers with a report or with the        *)
(* no-data result and never with an error.                                 *)
(***************************************************************************)
C24_ReportNeverErrors == GetQualityReport.resp.code = 200

\* The report fails exactly when the document of a scanned record is null or
\* a number, or holds a value that is no number under a recognized key.
ReportErrsOnUnaddableMetrics ==
    GetQualityReport.resp.code = 500 <=>
        \E i \in 1..Len(ScannedRecords) :
            LET metrics == StoredMetrics(ScannedRecords[i]) IN
            \/ metrics.t \in {"none", "num"}
            \/ /\ metrics.t = "dict"
               /\ \E k \in Recognized \cap DOMAIN metrics.m :
                     metrics.m[k].t \notin {"num", "none"}

(***************************************************************************)
(* C25.  A validate that commits changes only validation_status,           *)
(* last_verified and quality_metrics of the record it names: the id,       *)
(* data_entry_id, source_chain and created_at of that record, every other  *)
(* lineage record and every data entry are as before, and no key of the    *)
(* record's quality-metrics mapping is removed.  Checked under SpecConc,   *)
(* where a validate may commit after another validate of the record did.   *)
(***************************************************************************)
\* the keys of the quality-metrics mapping of a row
MetricKeys(row) ==
    IF StoredMetrics(row).t = "dict" THEN DOMAIN StoredMetrics(row).m ELSE {}

\* the step is the commit of a validate, and leaves what C25 says it leaves
\* apart from the keys of the mapping
ValidateKeepsTheRest ==
    LET id == last'.arg IN
    /\ DOMAIN lineage' = DOMAIN lineage
    /\ \A c \in {"id", "data_entry_id", "source_chain", "created_at"} :
          lineage'[id][c] = lineage[id][c]
    /\ \A k \in DOMAIN lineage \ {id} : lineage'[k] = lineage[k]
    /\ entries' = entries
    /\ sources' = sources

\* the session that commits in this step read the row as the store holds it
CommitsOnWhatItRead ==
    \A w \in Workers :
        txn[w].pc = "loaded" /\ txn'[w].pc = "done" =>
            txn[w].loaded = lineage[txn[w].lineage_id]

\* C25, as claimed: no key of the stored mapping is removed by any validate.
C25_ValidateFrame ==
    [][CommittedStep("validate_lineage") =>
          /\ ValidateKeepsTheRest
          /\ MetricKeys(lineage[last'.arg]) \subseteq MetricKeys(lineage'[last'.arg])]_vars

\* C25, amended: the frame holds for every validate, and no key is removed
\* by a validate that commits on the row as it read it; the validate that
\* commits after another one wrote the row stores the merge with what it
\* had read.
C25_ValidateFrameOnItsRead ==
    [][CommittedStep("validate_lineage") =>
          /\ ValidateKeepsTheRest
          /\ CommitsOnWhatItRead =>
                MetricKeys(lineage[last'.arg]) \subseteq MetricKeys(lineage'[last'.arg])
          /\ \A w \in Workers :
                /\ txn[w].pc = "loaded" /\ txn'[w].pc = "done"
                /\ txn[w].obj.quality_metrics # txn[w].loaded.quality_metrics
                => lineage'[last'.arg].quality_metrics = MergeComputedBy(w)]_vars

\* C25, witness: a validate that carried a partial committed on a record whose
\* mapping had other keys; they are still there, next to the key of the
\* partial, and the other lineage row is as it was created.
C25_Witness ==
    /\ last.op = "validate_lineage"
    /\ \E w \in Workers :
          /\ WroteMetrics(w)
          /\ txn[w].at = now - 1
          /\ MetricKeys(txn[w].loaded) # {}
          /\ MetricKeys(txn[w].loaded) \cap DOMAIN PartialOf(txn[w].data).m = {}
          /\ MetricKeys(lineage["l1"]) =
                MetricKeys(txn[w].loaded) \cup DOMAIN PartialOf(txn[w].data).m
    /\ lineage["l2"] = ConcOtherLineage

\* The same frame in the service that handles one request at a time: there
\* every validate commits on the row as it read it.
ValidateFrameOneAtATime ==
    [][CommittedStep("validate_lineage") =>
          /\ ValidateKeepsTheRest
          /\ MetricKeys(lineage[last'.arg]) \subseteq MetricKeys(lineage'[last'.arg])]_vars

(***************************************************************************)
(* C26.  In every reachable state the coverage statistics satisfy          *)
(* validated + pending + failed <= total lineage records and entries with  *)
(* lineage <= total data entries, so that entries without lineage is not   *)
(* negative and the coverage percentage lies between 0 and 100 (here in    *)
(* hundredths of a percent).                                               *)
(***************************************************************************)
C26_StatisticsBounds ==
    LET stats == GetLineageStats.resp.body IN
    /\ stats.validated_records + stats.pending_records + stats.failed_records
          <= stats.total_lineage_records
    /\ stats.entries_with_lineage <= stats.total_data_entries
    /\ stats.entries_without_lineage >= 0
    /\ stats.lineage_coverage_percentage >= 0
    /\ stats.lineage_coverage_percentage <= 10000

\* C26, witness: two lineage records of the one entry, one of them with a
\* status outside the three that are counted; the percentage is 100.
C26_Witness ==
    LET stats == GetLineageStats.resp.body IN
    /\ stats.total_lineage_records = 2
    /\ stats.validated_records + stats.pending_records + stats.failed_records = 1
    /\ stats.total_data_entries = 1
    /\ stats.entries_with_lineage = 1
    /\ stats.lineage_coverage_percentage = 10000

(***************************************************************************)
(* C27.  The collector's processing of one country is all-or-nothing and   *)
(* isolated.  A turn of the loop of collect_region_data takes the next     *)
(* code of the list and flags it once; when the flag is True the country   *)
(* profile, one new data entry and one lineage record of that entry were   *)
(* committed together; when it is False the three tables are as before;    *)
(* either way the rows and the flags there were are kept, and the run goes *)
(* on until every code of the list has its flag.                           *)
(***************************************************************************)
\* the step is a turn of the loop
LoopTurn == collecting /\ results' # results

\* the rows a table had are in it unchanged
RowsKept(before, after) ==
    DOMAIN before \subseteq DOMAIN after /\ \A k \in DOMAIN before : after[k] = before[k]

C27_CountryAllOrNothing ==
    [][LoopTurn =>
          LET country_code == NextCountry IN
          /\ country_code \notin DOMAIN results
          /\ DOMAIN results' = DOMAIN results \cup {country_code}
          /\ \A c \in DOMAIN results : results'[c] = results[c]
          /\ collecting' = (DOMAIN results' # CountryCodes)
          /\ RowsKept(entries, entries') /\ RowsKept(lineage, lineage')
          /\ \A c \in DOMAIN countries \ {country_code} :
                c \in DOMAIN countries' /\ countries'[c] = countries[c]
          /\ sources' = sources
          /\ IF results'[country_code]
             THEN /\ country_code \in DOMAIN countries'
                  /\ countries'[country_code].last_updated = PyDateTime(now)
                  /\ \E e \in DOMAIN entries' : \E l \in DOMAIN lineage' :
                        /\ DOMAIN entries' = DOMAIN entries \cup {e} /\ e \notin DOMAIN entries
                        /\ DOMAIN lineage' = DOMAIN lineage \cup {l} /\ l \notin DOMAIN lineage
                        /\ entries'[e].source_id = PyStr(CollectorSourceId)
                        /\ lineage'[l].data_entry_id = PyStr(e)
                  /\ now' = Later(now)
             ELSE /\ countries' = countries
                  /\ entries' = entries
                  /\ lineage' = lineage
                  /\ now' = now]_vars

\* C27, witness: the run is over with one flag per code; the first country
\* failed and left nothing, the second was processed after it and its three
\* rows are there.
C27_Witness ==
    /\ ~collecting
    /\ DOMAIN results = CountryCodes
    /\ ~results[CountryList[1]] /\ results[CountryList[2]]
    /\ DOMAIN countries = {CountryList[2]}
    /\ \E e \in DOMAIN entries : \E l \in DOMAIN lineage :
          /\ entries[e].source_id = PyStr(CollectorSourceId)
          /\ lineage[l].data_entry_id = PyStr(e)
    /\ \E data \in FetchedData, foreign_keys \in BOOLEAN :
          ProcessCountryData(CountryList[1], data, foreign_keys).raised # ""

\* The state of a run whose second country failed after the first was
\* processed: the rows of the first are there.
FailureAfterSuccessKeepsRows ==
    /\ ~collecting
    /\ results = (CountryList[1] :> TRUE) @@ (CountryList[2] :> FALSE)
    /\ DOMAIN countries = {CountryList[1]}
    /\ Cardinality(DOMAIN entries) = 1 /\ Cardinality(DOMAIN lineage) = 1

(***************************************************************************)
(* C28.  Bulk tag creation is all-or-nothing: a batch in which a tag lacks *)
(* data_entry_id, tag_type or tag_value is answered 400 and the tags table *)
(* is as before, whatever valid tags come before or after the lacking one. *)
(***************************************************************************)
HasLackingTag(data) ==
    /\ HasKey(data, "tags")
    /\ \E i \in 1..Len(data.m["tags"].items) :
          FirstMissing(data.m["tags"].items[i],
                       <<"data_entry_id", "tag_type", "tag_value">>) # ""

C28_BulkTagsAllOrNothing ==
    \A data \in BulkBodies, foreign_keys \in BOOLEAN :
        HasLackingTag(data) =>
            /\ CreateBulkTags(data, foreign_keys).resp.code = 400
            /\ CreateBulkTags(data, foreign_keys).table = tags

\* C28, witness: the entry exists, a batch was committed before, and a batch
\* whose first tag is valid and whose second lacks a field is refused.
C28_Witness ==
    /\ EntryPool[1] \in DOMAIN entries
    /\ last.op = "create_bulk_tags"
    /\ Len(tags) > 0
    /\ \E data \in BulkBodies :
          /\ HasLackingTag(data)
          /\ FirstMissing(data.m["tags"].items[1],
                          <<"data_entry_id", "tag_type", "tag_value">>) = ""
          /\ CreateBulkTags(data, FALSE).resp.code = 400
          /\ CreateBulkTags(data, FALSE).table = tags

(***************************************************************************)
(* C29.  create_country_profile is an upsert keyed by the country id: it   *)
(* answers 201 when no profile with the id existed before the call and 200 *)
(* when it updated one, and the profiles after it hold one row for the id. *)
(***************************************************************************)
CompleteCountry(data) == HasKey(data, "id") /\ HasKey(data, "name")

C29_UpsertStatus ==
    \A data \in CountryBodies :
        CompleteCountry(data) =>
            LET out == CreateCountryProfile(data) IN
            /\ out.resp.code =
                  (IF data.m["id"].s \in DOMAIN countries THEN 200 ELSE 201)
            /\ DOMAIN out.table = DOMAIN countries \cup {data.m["id"].s}
            /\ out.table[data.m["id"].s].id = data.m["id"]

\* What the handler keeps of C29: the upsert, by the id, with the other
\* profiles as they were; its answer is 200 for the insert as for the update.
UpsertAnswers200 ==
    \A data \in CountryBodies :
        CompleteCountry(data) =>
            LET out == CreateCountryProfile(data) IN
            /\ out.resp.code = 200
            /\ DOMAIN out.table = DOMAIN countries \cup {data.m["id"].s}
            /\ out.table[data.m["id"].s].id = data.m["id"]
            /\ out.table[data.m["id"].s].name = data.m["name"]
            /\ \A c \in DOMAIN countries \ {data.m["id"].s} : out.table[c] = countries[c]

====
